---------------------------- MODULE Spec2Model ----------------------------
(***************************************************************************)
(* PPE safety-rule violation pipeline.                                     *)
(*                                                                         *)
(* State machine of the four scripts of the repository:                    *)
(*   app_main.py  detect_and_process  (thresholds, IoU association,        *)
(*                throttled violator crops, session summary)               *)
(*   app.py       process_video       (presence policy)                    *)
(*   app2.py      process_video       (count-deficit policy)               *)
(*   app3.py      process_video       (count-deficit policy, periodic      *)
(*                summary snapshots)                                       *)
(*                                                                         *)
(* One action per step of each script's frame loop.  The detector, the     *)
(* video source, the wall clock, the file system and the SMTP server are   *)
(* the environment: their answers are the \E-bound inputs of the actions.  *)
(*                                                                         *)
(* Spec          the scripts, with the history variables the properties    *)
(*               read                                                      *)
(* SpecTotals    detect_and_process, with the history variable cum (the    *)
(*               running per-class totals) recorded as well                *)
(* SpecThrottle  detect_and_process on an uploaded video with the default  *)
(*               thresholds, with the history variable captures (the log   *)
(*               of crops written) recorded as well                        *)
(* SpecLive      detect_and_process on the live camera with the default    *)
(*               thresholds, with the history variable stopped recorded    *)
(* SpecIou       a call of iou on any two boxes of a small grid            *)
(***************************************************************************)
EXTENDS Integers, Sequences, FiniteSets, TLC

(***************************************************************************)
(* Bounds of the model.                                                    *)
(***************************************************************************)
\* frames the video source delivers before it is exhausted
MaxFrames == 2
\* boxes the detector returns for one frame
MaxBoxes == 2
\* confidences and slider positions are k / MaxConf, k \in 0..MaxConf
MaxConf == 2
\* the wall clock is read in ticks of TickSecs seconds, at most MaxTicks of them
TickSecs == 4
MaxTicks == 6
\* frames of the scripted videos (see Worlds)
LongFrames == 160
\* box coordinates of a call of iou on its own are 0..MaxCoord
MaxCoord == 2

(***************************************************************************)
(* Program constants.                                                      *)
(***************************************************************************)
\* app_main.py:138   now - last_capture_time > 8
MinInterval == 8
\* app_main.py:94   fps = cap.get(cv2.CAP_PROP_FPS) or 25
FramesPerSecond == 25
\* app3.py:134   frame_idx % 70 == 0
SnapshotInterval == 70
\* app_main.py:132   iou(...) > 0.2, as the fraction OverlapNum / OverlapDen
OverlapNum == 2
OverlapDen == 10

\* keys of `thresholds` (app_main.py:203-208) and of `detections` (100-105)
ConfigLabels == {"Person", "Hardhat", "Face Mask", "Safety Vest"}
\* class names the detector may emit (model.names); "Mask" and "NO-Mask" are
\* the names app2.py counts, "Face Mask" the one app_main.py configures
ModelNames == ConfigLabels \cup {"Mask", "NO-Mask"}
\* the PPE classes of the session summary, in the order of app_main.py:174-182
PPEItems == <<"Hardhat", "Face Mask", "Safety Vest">>

ConfLevels == 0..MaxConf
\* boxes (x1, y1, x2, y2) of the scenes: a person-sized box, a box that
\* overlaps it with IoU exactly 1/5, and a zero-width box
SceneBoxes == { <<0, 0, 2, 2>>, <<1, 0, 3, 1>>, <<1, 1, 1, 2>> }
\* one entry of result.boxes: class name, int(xyxy), conf.  Only the boxes of
\* Person and Hardhat are ever read, the other classes come with one box.
RawDets ==
    [label : {"Person", "Hardhat"}, xyxy : SceneBoxes, conf : ConfLevels]
    \cup [label : ModelNames \ {"Person", "Hardhat"}, xyxy : {<<0, 0, 2, 2>>},
          conf : ConfLevels]
\* slider settings of the sidebar: the default (every slider at 0.5) and one
\* with a different position per class
DefaultThresholds == [k \in ConfigLabels |-> 1]
ThresholdChoices ==
    { DefaultThresholds,
      [k \in ConfigLabels |->
         CASE k = "Person" -> 0 [] k = "Hardhat" -> MaxConf
           [] k = "Face Mask" -> 1 [] OTHER -> 0] }

Programs == {"app_main", "app", "app2", "app3"}

\* What the environment does.  "free": the detector returns up to MaxBoxes
\* boxes of RawDets for each of up to MaxFrames frames, and cv2.imwrite may
\* fail.  "crowd" (app_main.py): one frame of up to MaxBoxes + 2 boxes of
\* CrowdDets.  The scripted worlds (app3.py) play a video of LongFrames
\* frames with the detections of ScriptedFrame, on a disk that takes every
\* write.
ScriptedWorlds == {"violating", "alternating", "crowded"}
Worlds == {"free", "crowd"} \cup ScriptedWorlds

\* the boxes of a crowded frame: top-confidence persons at two places (of
\* IoU exactly 1/5 with one another) and hardhats on them or degenerate
CrowdDets ==
    [label : {"Person"}, xyxy : {<<0, 0, 2, 2>>, <<1, 0, 3, 1>>}, conf : {MaxConf}]
    \cup [label : {"Hardhat"}, xyxy : SceneBoxes, conf : {MaxConf}]

\* frames the video source delivers
FrameLimit(w) ==
    CASE w = "free" -> MaxFrames
      [] w = "crowd" -> 1
      [] OTHER -> LongFrames

\* boxes the detector returns for one frame, and what they are
BoxLimit(w) == IF w = "crowd" THEN MaxBoxes + 2 ELSE MaxBoxes
Detector(w) == IF w = "crowd" THEN CrowdDets ELSE RawDets

VARIABLES
    program,            \* which script runs
    pc,                 \* position of the script
    error,              \* exception that ended the script, "none" otherwise
    clock,              \* last reading of time.time(), in ticks
    is_live,            \* detect_and_process(is_live=...)
    thresholds,         \* detect_and_process(thresholds=...)
    world,              \* app3.py: the environment, see Worlds
    frame_idx,
    alert_count,
    nboxes,             \* position of `for box in boxes`
    report,             \* <<arguments of send_summary_email>>; <<>> before
    mail,               \* outcome of send_summary_email
    \* ---- app_main.py ----
    last_capture_time,
    detections,         \* label -> boxes of the current frame
    pidx,               \* position of `for ... in detections["Person"]`
    violator_images,    \* files of VIOLATION_DIR, by frame index of the name
    summary_msg,        \* <<the summary text, as a record>>; <<>> before
    \* ---- app.py, app2.py ----
    person_detected,
    hardhat_detected,
    alert_images,       \* app.py: frame indices of the alert files, in order
    counts,             \* app2.py: person_count, hardhat_count, vest_count, mask_count
    alert_folder,       \* files of ALERT_FOLDER, by frame index of the name
    \* ---- app3.py ----
    violations_to_draw, \* boxes kept for the summary snapshot of the frame
    summary_folder,     \* files of SUMMARY_FOLDER, by frame index of the name
    \* ---- history variables (read by the properties only) ----
    visible,            \* app_main: above-threshold detections of the frame
    unconf,             \* detections of the running box loop whose label the
                        \* script does not know
    raw_counts,         \* app, app2: per label, boxes the detector gave for
                        \* the frame
    flag_log,           \* frames the script's policy flags, in order
    cum,                \* per label, detections of all completed frames
    captures,           \* every cv2.imwrite of a crop: frame, clock reading
    snap_log,           \* app3: every summary snapshot written: frame, boxes
                        \* drawn as "No Hardhat"
    expected_alerts,    \* app_main: over the completed box loops, the persons
                        \* no above-threshold Hardhat box overlaps
    stopped,            \* app_main: the Esc key ended the frame loop
    \* ---- a call of iou on its own ----
    argA,               \* the boxes iou is called with
    argB,
    overlap             \* <<what iou(argA, argB) returned>>; <<>> before

vars == << program, pc, error, clock, is_live, thresholds, world, frame_idx,
           alert_count, nboxes, report, mail,
           last_capture_time, detections, pidx, violator_images, summary_msg,
           person_detected, hardhat_detected, alert_images, counts, alert_folder,
           violations_to_draw, summary_folder,
           visible, unconf, raw_counts, flag_log, cum, captures, snap_log,
           expected_alerts, stopped, argA, argB, overlap >>

iouVars == << argA, argB, overlap >>
ctlVars == << program, is_live, thresholds, world >>
app3Vars == << violations_to_draw, summary_folder, snap_log >>
mainVars == << last_capture_time, detections, pidx, violator_images, summary_msg >>
appVars == << person_detected, hardhat_detected, alert_images, counts, alert_folder >>
mainHist == << visible, cum, captures >>

(***************************************************************************)
(* Pure helpers.                                                           *)
(***************************************************************************)
Max(a, b) == IF a >= b THEN a ELSE b
Min(a, b) == IF a <= b THEN a ELSE b

\* variant of iou: the overlap is taken relative to the first box
iouOverFirst(boxA, boxB) ==
    LET xA == Max(boxA[1], boxB[1])
        yA == Max(boxA[2], boxB[2])
        xB == Min(boxA[3], boxB[3])
        yB == Min(boxA[4], boxB[4])
        interArea == Max(0, xB - xA) * Max(0, yB - yA)
        boxAArea == (boxA[3] - boxA[1]) * (boxA[4] - boxA[2])
    IN  IF interArea = 0 THEN <<0, 1>>
        ELSE <<interArea, boxAArea>>

\* variant of iou: no early return on an empty intersection
iouUnguarded(boxA, boxB) ==
    LET xA == Max(boxA[1], boxB[1])
        yA == Max(boxA[2], boxB[2])
        xB == Min(boxA[3], boxB[3])
        yB == Min(boxA[4], boxB[4])
        interArea == Max(0, xB - xA) * Max(0, yB - yA)
        boxAArea == (boxA[3] - boxA[1]) * (boxA[4] - boxA[2])
        boxBArea == (boxB[3] - boxB[1]) * (boxB[4] - boxB[2])
    IN  <<interArea, boxAArea + boxBArea - interArea>>

\* app_main.py:72-82.  The quotient interArea / float(union) is kept as the
\* pair <<numerator, denominator>>; the early return 0 is <<0, 1>>.
iou(boxA, boxB) ==
    LET xA == Max(boxA[1], boxB[1])
        yA == Max(boxA[2], boxB[2])
        xB == Min(boxA[3], boxB[3])
        yB == Min(boxA[4], boxB[4])
        interArea == Max(0, xB - xA) * Max(0, yB - yA)
        boxAArea == (boxA[3] - boxA[1]) * (boxA[4] - boxA[2])
        boxBArea == (boxB[3] - boxB[1]) * (boxB[4] - boxB[2])
    IN  IF interArea = 0 THEN <<0, 1>>
        ELSE <<interArea, boxAArea + boxBArea - interArea>>

\* variant of ExceedsOverlap: an overlap of exactly 0.2 counts
MeetsOverlap(q) == q[1] * OverlapDen >= OverlapNum * q[2]

\* q > 0.2 for a quotient q = <<n, d>> with d > 0 (app_main.py:132)
ExceedsOverlap(q) == q[1] * OverlapDen > OverlapNum * q[2]

\* app_main.py:132-133
has_helmet(person_box, hardhats) ==
    \E i \in 1..Len(hardhats) : ExceedsOverlap(iou(person_box, hardhats[i]))

\* variant of Accepts: a detection at the threshold is dropped
AcceptsAbove(th, label, conf) == label \in DOMAIN th /\ conf > th[label]

\* variant of Accepts: a label without a threshold is let through
AcceptsPermissive(th, label, conf) == label \notin DOMAIN th \/ conf >= th[label]

\* app_main.py:124
Accepts(th, label, conf) == label \in DOMAIN th /\ conf >= th[label]

\* variant of ShouldCapture: a crop exactly MinInterval after the last one
ShouldCaptureAtInterval(now, last) == (now - last) * TickSecs >= MinInterval

\* app_main.py:138, clock readings in ticks
ShouldCapture(now, last) == (now - last) * TickSecs > MinInterval

\* frame[py1:py2, px1:px2] is empty: cv2.resize raises on it (app_main.py:135-136)
EmptyCrop(b) == b[3] <= b[1] \/ b[4] <= b[2]

\* app_main.py:100-105, 116
EmptyDetections == [k \in ConfigLabels |-> <<>>]
ZeroCounts == [k \in ConfigLabels |-> 0]

NoBoxes == [k \in ModelNames |-> 0]

\* app2.py:92-95
ZeroFrameCounts ==
    [person_count |-> 0, hardhat_count |-> 0, vest_count |-> 0, mask_count |-> 0]

(***************************************************************************)
(* Initial state: a script is launched.  VIOLATION_DIR and ALERT_FOLDER    *)
(* may hold a file of an earlier session.                                  *)
(***************************************************************************)
Launch ==
    /\ program \in Programs
    /\ pc = "idle"
    /\ error = "none"
    /\ clock = 0
    /\ is_live \in (IF program = "app_main" THEN BOOLEAN ELSE {FALSE})
    /\ thresholds \in (IF program = "app_main" THEN ThresholdChoices
                       ELSE {DefaultThresholds})
    /\ world \in CASE program = "app3" -> {"free"} \cup ScriptedWorlds
                   [] program = "app_main" -> {"free", "crowd"}
                   [] OTHER -> {"free"}
    /\ frame_idx = 0
    /\ alert_count = 0
    /\ nboxes = 0
    /\ report = <<>>
    /\ mail = "none"
    /\ last_capture_time = 0
    /\ detections = EmptyDetections
    /\ pidx = 0
    /\ violator_images \in (IF program = "app_main" THEN {{}, {1}} ELSE {{}})
    /\ summary_msg = <<>>
    /\ person_detected = FALSE
    /\ hardhat_detected = FALSE
    /\ alert_images = <<>>
    /\ counts = ZeroFrameCounts
    /\ alert_folder \in (IF program = "app_main" THEN {{}} ELSE {{}, {1}})
    /\ visible = EmptyDetections
    /\ unconf = 0
    /\ raw_counts = NoBoxes
    /\ flag_log = <<>>
    /\ cum = ZeroCounts
    /\ captures = <<>>
    /\ violations_to_draw = <<>>
    /\ summary_folder \in (IF program = "app3" THEN {{}, {SnapshotInterval}} ELSE {{}})
    /\ snap_log = <<>>
    /\ expected_alerts = 0
    /\ stopped = FALSE
    \* the launches differ from the plain one (an uploaded video, the default
    \* sliders, an empty folder) in one respect at a time
    /\ world = "crowd" =>
          ~is_live /\ thresholds = DefaultThresholds /\ violator_images = {}
    /\ is_live => thresholds = DefaultThresholds /\ violator_images = {}
    /\ thresholds # DefaultThresholds => violator_images = {}

\* a script is launched; iou is not called on its own
Init ==
    /\ Launch
    /\ argA = <<0, 0, 0, 0>> /\ argB = <<0, 0, 0, 0>>
    /\ overlap = <<>>

(***************************************************************************)
(* app_main.py: the end of a session (lines 159-197).                      *)
(***************************************************************************)
\* app_main.py:161-164
Totals(d) == [k \in ConfigLabels |-> Len(d[k])]

\* variant of Clamp: the total is reported as counted
ClampOff(total, persons) == total

\* app_main.py:167-169
Clamp(total, persons) == Min(total, persons)

\* variant of Deficit: a class as numerous as the persons is in deficit
DeficitOrEqual(persons, total) == persons >= total

\* app_main.py:174, 177, 180
Deficit(persons, total) == persons > total

\* app_main.py:171-182: one line of violation_details per PPE class in deficit
ViolationDetails(persons, clamped) ==
    LET line(i) == [item |-> PPEItems[i], persons |-> persons,
                    only |-> clamped[PPEItems[i]]]
        lines == [i \in 1..Len(PPEItems) |-> line(i)]
    IN  SelectSeq(lines, LAMBDA r : Deficit(r.persons, r.only))

\* app_main.py:171-182: extra_violation_flag
ExtraViolationFlag(persons, clamped) ==
    \E i \in 1..Len(PPEItems) : Deficit(persons, clamped[PPEItems[i]])

\* variant of SummaryMsg: 'Violation Frames' is the number of crops in the
\* folder
SummaryMsgOfCrops(d, alerts) ==
    LET total == Totals(d)
        persons == total["Person"]
        clamped == [k \in ConfigLabels |->
                      IF k = "Person" THEN persons ELSE Clamp(total[k], persons)]
    IN  [ persons |-> persons,
          hardhats |-> clamped["Hardhat"],
          masks |-> clamped["Face Mask"],
          vests |-> clamped["Safety Vest"],
          violation_frames |-> Cardinality(violator_images),
          additional |-> ExtraViolationFlag(persons, clamped),
          details |-> IF ExtraViolationFlag(persons, clamped)
                      THEN ViolationDetails(persons, clamped) ELSE <<>> ]

\* app_main.py:161-193: summary_msg
SummaryMsg(d, alerts) ==
    LET total == Totals(d)
        persons == total["Person"]
        clamped == [k \in ConfigLabels |->
                      IF k = "Person" THEN persons ELSE Clamp(total[k], persons)]
    IN  [ persons |-> persons,
          hardhats |-> clamped["Hardhat"],
          masks |-> clamped["Face Mask"],
          vests |-> clamped["Safety Vest"],
          violation_frames |-> alerts,
          additional |-> ExtraViolationFlag(persons, clamped),
          details |-> IF ExtraViolationFlag(persons, clamped)
                      THEN ViolationDetails(persons, clamped) ELSE <<>> ]

\* app_main.py:159-197 with send_summary_email (46-70): the summary and the
\* .jpg files of the folder go to the SMTP server, whose failure is printed
Main_Finalize ==
    /\ summary_msg' = << SummaryMsg(detections, alert_count) >>
    /\ report' = << [folder |-> violator_images, violations |-> alert_count,
                     total_frames |-> frame_idx] >>
    /\ \E smtp_ok \in BOOLEAN : mail' = IF smtp_ok THEN "sent" ELSE "error"
    /\ pc' = "done"

(***************************************************************************)
(* app_main.py: detect_and_process.                                        *)
(***************************************************************************)
\* app_main.py:85-105
Main_Start ==
    /\ program = "app_main" /\ pc = "idle"
    /\ violator_images' = {}
    /\ \E opened \in BOOLEAN :
         IF opened
         THEN /\ pc' = "read"
              /\ last_capture_time' = clock
         ELSE /\ pc' = "returned"
              /\ UNCHANGED last_capture_time
    /\ frame_idx' = 0
    /\ alert_count' = 0
    /\ detections' = EmptyDetections
    /\ UNCHANGED << error, clock, nboxes, report, mail, pidx, summary_msg >>
    /\ UNCHANGED << app3Vars, expected_alerts >>
    /\ UNCHANGED << ctlVars, appVars, mainHist, unconf, raw_counts, flag_log >>
    /\ UNCHANGED << iouVars, stopped >>

\* app_main.py:108-116, cap.read() returns a frame
Main_ReadFrame ==
    /\ program = "app_main" /\ pc = "read"
    /\ frame_idx < FrameLimit(world)
    /\ frame_idx' = frame_idx + 1
    /\ detections' = EmptyDetections
    /\ nboxes' = 0
    /\ pc' = "boxes"
    /\ visible' = EmptyDetections
    /\ unconf' = 0
    /\ UNCHANGED << error, clock, alert_count, report, mail, last_capture_time,
                    pidx, violator_images, summary_msg >>
    /\ UNCHANGED << app3Vars, expected_alerts >>
    /\ UNCHANGED << ctlVars, appVars, raw_counts, flag_log, cum, captures >>
    /\ UNCHANGED << iouVars, stopped >>

\* app_main.py:119-128, one iteration of `for box in boxes`
Main_IngestBox ==
    /\ program = "app_main" /\ pc = "boxes"
    /\ nboxes < BoxLimit(world)
    /\ \E box \in Detector(world) :
         /\ nboxes' = nboxes + 1
         /\ IF Accepts(thresholds, box.label, box.conf)
            THEN IF box.label \in DOMAIN detections
                 THEN /\ detections' = [detections EXCEPT
                                          ![box.label] = Append(@, box.xyxy)]
                      /\ UNCHANGED << pc, error >>
                 ELSE /\ pc' = "crashed"
                      /\ error' = "KeyError"
                      /\ UNCHANGED detections
            ELSE UNCHANGED << detections, pc, error >>
         \* history: what the configured thresholds let through
         /\ visible' = IF box.label \in ConfigLabels /\ box.conf >= thresholds[box.label]
                       THEN [visible EXCEPT ![box.label] = Append(@, box.xyxy)]
                       ELSE visible
         /\ unconf' = IF box.label \in ConfigLabels THEN unconf ELSE unconf + 1
    /\ UNCHANGED << clock, frame_idx, alert_count, report, mail, last_capture_time,
                    pidx, violator_images, summary_msg >>
    /\ UNCHANGED << app3Vars, expected_alerts >>
    /\ UNCHANGED << ctlVars, appVars, raw_counts, flag_log, cum, captures >>
    /\ UNCHANGED << iouVars, stopped >>

\* history: the persons of a frame's detections d that no Hardhat box of d
\* overlaps by more than OverlapNum / OverlapDen
Unequipped(d) ==
    Cardinality({ i \in 1..Len(d["Person"]) :
                    \A j \in 1..Len(d["Hardhat"]) :
                       LET q == iou(d["Person"][i], d["Hardhat"][j])
                       IN  q[1] * OverlapDen <= OverlapNum * q[2] })

\* app_main.py:119/130, `for box in boxes` is exhausted (or boxes is None);
\* the loop position is dead from here on.  With record, the history
\* variable cum takes the frame's counts.
Main_BoxesDone(record) ==
    /\ program = "app_main" /\ pc = "boxes"
    /\ nboxes' = 0
    /\ unconf' = 0
    /\ pidx' = 0
    /\ pc' = "persons"
    /\ cum' = IF record THEN [k \in ConfigLabels |-> cum[k] + Len(detections[k])]
              ELSE cum
    /\ UNCHANGED << error, clock, frame_idx, alert_count, report, mail,
                    last_capture_time, detections, violator_images, summary_msg >>
    /\ expected_alerts' = expected_alerts + Unequipped(visible)
    /\ UNCHANGED app3Vars
    /\ UNCHANGED << ctlVars, appVars, visible, raw_counts, flag_log, captures >>
    /\ UNCHANGED << iouVars, stopped >>

\* history: the frame is flagged when its first unequipped person is counted
FlagFrame(log, idx) ==
    IF log # <<>> /\ log[Len(log)] = idx THEN log ELSE Append(log, idx)

\* app_main.py:130-143, one iteration of `for ... in detections["Person"]`.
\* dt is the time that passed since the clock was last read; ok is the
\* result of cv2.imwrite.  With record, the history variable captures logs
\* the crop.
Main_EvalPerson(record) ==
    /\ program = "app_main" /\ pc = "persons"
    /\ pidx < Len(detections["Person"])
    /\ LET person_box == detections["Person"][pidx + 1] IN
       IF has_helmet(person_box, detections["Hardhat"])
       THEN /\ pidx' = pidx + 1
            /\ UNCHANGED << pc, error, clock, alert_count, last_capture_time,
                            violator_images, flag_log, captures >>
       ELSE IF EmptyCrop(person_box)
       THEN /\ pc' = "crashed"
            /\ error' = "cv2.error"
            /\ UNCHANGED << pidx, clock, alert_count, last_capture_time,
                            violator_images, flag_log, captures >>
       ELSE \E dt \in 0..(MaxTicks - clock), ok \in BOOLEAN :
            /\ clock' = clock + dt
            /\ IF ShouldCapture(clock', last_capture_time)
               THEN /\ violator_images' = IF ok THEN violator_images \cup {frame_idx}
                                          ELSE violator_images
                    /\ last_capture_time' = clock'
                    /\ captures' = IF record
                                   THEN Append(captures,
                                               [frame |-> frame_idx, t |-> clock'])
                                   ELSE captures
               ELSE /\ ok
                    /\ UNCHANGED << violator_images, last_capture_time, captures >>
            /\ alert_count' = alert_count + 1
            /\ pidx' = pidx + 1
            /\ flag_log' = FlagFrame(flag_log, frame_idx)
            /\ UNCHANGED << pc, error >>
    /\ UNCHANGED << frame_idx, nboxes, report, mail, detections, summary_msg >>
    /\ UNCHANGED << app3Vars, expected_alerts >>
    /\ UNCHANGED << ctlVars, appVars, visible, unconf, raw_counts, cum >>
    /\ UNCHANGED << iouVars, stopped >>

\* app_main.py:145-157, the frame is shown and the loop goes on
Main_EndFrame ==
    /\ program = "app_main" /\ pc = "persons"
    /\ pidx = Len(detections["Person"])
    /\ pc' = "read"
    /\ UNCHANGED << error, clock, frame_idx, alert_count, nboxes, report, mail >>
    /\ UNCHANGED << app3Vars, expected_alerts >>
    /\ UNCHANGED << ctlVars, mainVars, appVars, mainHist, unconf, raw_counts,
                    flag_log >>
    /\ UNCHANGED << iouVars, stopped >>

\* variant of Main_Stop: the Esc key ends the session without a summary
Main_StopAbandons(record) ==
    /\ program = "app_main" /\ pc = "persons"
    /\ pidx = Len(detections["Person"])
    /\ is_live
    /\ pc' = "done"
    /\ stopped' = (stopped \/ record)
    /\ UNCHANGED << error, clock, frame_idx, alert_count, nboxes, report, mail >>
    /\ UNCHANGED << iouVars, app3Vars, expected_alerts >>
    /\ UNCHANGED << ctlVars, mainVars, appVars, mainHist, unconf, raw_counts,
                    flag_log >>

\* app_main.py:156-157 then 159-197, a live session and the Esc key; the
\* history variable stopped is written when record holds
Main_Stop(record) ==
    /\ program = "app_main" /\ pc = "persons"
    /\ pidx = Len(detections["Person"])
    /\ is_live
    /\ Main_Finalize
    /\ UNCHANGED << error, clock, frame_idx, alert_count, nboxes,
                    last_capture_time, detections, pidx, violator_images >>
    /\ UNCHANGED << app3Vars, expected_alerts >>
    /\ UNCHANGED << ctlVars, appVars, mainHist, unconf, raw_counts, flag_log >>
    /\ stopped' = (stopped \/ record)
    /\ UNCHANGED iouVars

\* app_main.py:108-110 then 159-197, cap.read() returns no frame
Main_EndOfVideo ==
    /\ program = "app_main" /\ pc = "read"
    /\ Main_Finalize
    /\ UNCHANGED << error, clock, frame_idx, alert_count, nboxes,
                    last_capture_time, detections, pidx, violator_images >>
    /\ UNCHANGED << app3Vars, expected_alerts >>
    /\ UNCHANGED << ctlVars, appVars, mainHist, unconf, raw_counts, flag_log >>
    /\ UNCHANGED << iouVars, stopped >>

(***************************************************************************)
(* app.py: process_video and the main block.                               *)
(***************************************************************************)
\* variant of PresenceViolation: a person is enough
PersonOnly(person, hardhat) == person

\* app.py:104
PresenceViolation(person, hardhat) == person /\ ~hardhat

\* app.py:63-73; on a source that does not open process_video returns None
\* and the main block's unpacking of it (line 135) raises
App_Start ==
    /\ program = "app" /\ pc = "idle"
    /\ \E opened \in BOOLEAN :
         IF opened
         THEN /\ pc' = "read"
              /\ UNCHANGED error
         ELSE /\ pc' = "crashed"
              /\ error' = "TypeError"
    /\ alert_images' = <<>>
    /\ frame_idx' = 0
    /\ UNCHANGED << clock, alert_count, nboxes, report, mail, person_detected,
                    hardhat_detected, counts, alert_folder >>
    /\ UNCHANGED << app3Vars, expected_alerts >>
    /\ UNCHANGED << ctlVars, mainVars, mainHist, unconf, raw_counts, flag_log >>
    /\ UNCHANGED << iouVars, stopped >>

\* app.py:76-83, cap.read() returns a frame
App_ReadFrame ==
    /\ program = "app" /\ pc = "read"
    /\ frame_idx < MaxFrames
    /\ frame_idx' = frame_idx + 1
    /\ person_detected' = FALSE
    /\ hardhat_detected' = FALSE
    /\ nboxes' = 0
    /\ pc' = "boxes"
    /\ raw_counts' = NoBoxes
    /\ UNCHANGED << error, clock, alert_count, report, mail, alert_images, counts,
                    alert_folder >>
    /\ UNCHANGED << app3Vars, expected_alerts >>
    /\ UNCHANGED << ctlVars, mainVars, mainHist, unconf, flag_log >>
    /\ UNCHANGED << iouVars, stopped >>

\* app.py:85-97, one iteration of `for box in result.boxes`
App_IngestBox ==
    /\ program = "app" /\ pc = "boxes"
    /\ nboxes < MaxBoxes
    /\ \E box \in RawDets :
         /\ nboxes' = nboxes + 1
         /\ person_detected' = (person_detected \/ box.label = "Person")
         /\ hardhat_detected' = (hardhat_detected \/ box.label = "Hardhat")
         /\ raw_counts' = [raw_counts EXCEPT ![box.label] = @ + 1]
    /\ UNCHANGED << pc, error, clock, frame_idx, alert_count, report, mail,
                    alert_images, counts, alert_folder >>
    /\ UNCHANGED << app3Vars, expected_alerts >>
    /\ UNCHANGED << ctlVars, mainVars, mainHist, unconf, flag_log >>
    /\ UNCHANGED << iouVars, stopped >>

\* app.py:99-108, the boxes are exhausted; ok is the result of cv2.imwrite
App_EndFrame ==
    /\ program = "app" /\ pc = "boxes"
    /\ IF PresenceViolation(person_detected, hardhat_detected)
       THEN \E ok \in BOOLEAN :
              /\ alert_folder' = IF ok THEN alert_folder \cup {frame_idx}
                                 ELSE alert_folder
              /\ alert_images' = Append(alert_images, frame_idx)
       ELSE UNCHANGED << alert_folder, alert_images >>
    /\ nboxes' = 0
    /\ pc' = "read"
    \* history: the frame has a Person box and no Hardhat box
    /\ flag_log' = IF raw_counts["Person"] >= 1 /\ raw_counts["Hardhat"] = 0
                   THEN Append(flag_log, frame_idx) ELSE flag_log
    /\ UNCHANGED << error, clock, frame_idx, alert_count, report, mail,
                    person_detected, hardhat_detected, counts >>
    /\ UNCHANGED << app3Vars, expected_alerts >>
    /\ UNCHANGED << ctlVars, mainVars, mainHist, unconf, raw_counts >>
    /\ UNCHANGED << iouVars, stopped >>

\* app.py:77-78, 110-112, 135-138: cap.read() returns no frame, the main
\* block hands alert_images to send_summary_email (33-61), which opens every
\* path before it reaches the SMTP server
App_EndOfVideo ==
    /\ program = "app" /\ pc = "read"
    /\ report' = << [image_paths |-> alert_images] >>
    /\ IF \A i \in 1..Len(alert_images) : alert_images[i] \in alert_folder
       THEN /\ \E smtp_ok \in BOOLEAN : mail' = IF smtp_ok THEN "sent" ELSE "error"
            /\ pc' = "done"
            /\ UNCHANGED error
       ELSE /\ pc' = "crashed"
            /\ error' = "FileNotFoundError"
            /\ UNCHANGED mail
    /\ UNCHANGED << clock, frame_idx, alert_count, nboxes >>
    /\ UNCHANGED << app3Vars, expected_alerts >>
    /\ UNCHANGED << ctlVars, mainVars, appVars, mainHist, unconf, raw_counts,
                    flag_log >>
    /\ UNCHANGED << iouVars, stopped >>

(***************************************************************************)
(* app2.py: process_video and the main block.                              *)
(***************************************************************************)
\* variant of CountDeficitViolation: persons and no hardhat at all
NoHardhatAtAll(person_count, hardhat_count) ==
    person_count > 0 /\ hardhat_count = 0

\* variant of CountDeficitViolation: as many hardhats as persons is a deficit
DeficitOrTie(person_count, hardhat_count) ==
    person_count > 0 /\ hardhat_count <= person_count

\* app2.py:135, app3.py:127
CountDeficitViolation(person_count, hardhat_count) ==
    person_count > 0 /\ hardhat_count < person_count

\* variant of CountLabel: a label outside the elif chain counts as a hardhat
CountLabelElseHardhat(c, label) ==
    IF label = "Person" THEN [c EXCEPT !.person_count = @ + 1]
    ELSE IF label = "Safety Vest" THEN [c EXCEPT !.vest_count = @ + 1]
    ELSE IF label \in {"Mask", "NO-Mask"} THEN [c EXCEPT !.mask_count = @ + 1]
    ELSE [c EXCEPT !.hardhat_count = @ + 1]

\* app2.py:106-113
CountLabel(c, label) ==
    IF label = "Person" THEN [c EXCEPT !.person_count = @ + 1]
    ELSE IF label = "Hardhat" THEN [c EXCEPT !.hardhat_count = @ + 1]
    ELSE IF label = "Safety Vest" THEN [c EXCEPT !.vest_count = @ + 1]
    ELSE IF label \in {"Mask", "NO-Mask"} THEN [c EXCEPT !.mask_count = @ + 1]
    ELSE c

\* labels of the elif chain of app2.py:106-113
App2Labels == {"Person", "Hardhat", "Safety Vest", "Mask", "NO-Mask"}

\* app2.py:73-83; on a source that does not open process_video returns
\* (None, 0, 0) and the main block (168-180) skips the report
App2_Start ==
    /\ program = "app2" /\ pc = "idle"
    /\ \E opened \in BOOLEAN : pc' = IF opened THEN "read" ELSE "returned"
    /\ frame_idx' = 0
    /\ alert_count' = 0
    /\ UNCHANGED << error, clock, nboxes, report, mail >>
    /\ UNCHANGED << app3Vars, expected_alerts >>
    /\ UNCHANGED << ctlVars, mainVars, appVars, mainHist, unconf, raw_counts,
                    flag_log >>
    /\ UNCHANGED << iouVars, stopped >>

\* app2.py:86-95, cap.read() returns a frame
App2_ReadFrame ==
    /\ program = "app2" /\ pc = "read"
    /\ frame_idx < MaxFrames
    /\ frame_idx' = frame_idx + 1
    /\ counts' = ZeroFrameCounts
    /\ nboxes' = 0
    /\ pc' = "boxes"
    /\ raw_counts' = NoBoxes
    /\ unconf' = 0
    /\ UNCHANGED << error, clock, alert_count, report, mail, person_detected,
                    hardhat_detected, alert_images, alert_folder >>
    /\ UNCHANGED << app3Vars, expected_alerts >>
    /\ UNCHANGED << ctlVars, mainVars, mainHist, flag_log >>
    /\ UNCHANGED << iouVars, stopped >>

\* app2.py:97-117, one iteration of `for box in result.boxes`
App2_IngestBox ==
    /\ program = "app2" /\ pc = "boxes"
    /\ nboxes < MaxBoxes
    /\ \E box \in RawDets :
         /\ nboxes' = nboxes + 1
         /\ counts' = CountLabel(counts, box.label)
         /\ raw_counts' = [raw_counts EXCEPT ![box.label] = @ + 1]
         /\ unconf' = IF box.label \in App2Labels THEN unconf ELSE unconf + 1
    /\ UNCHANGED << pc, error, clock, frame_idx, alert_count, report, mail,
                    person_detected, hardhat_detected, alert_images, alert_folder >>
    /\ UNCHANGED << app3Vars, expected_alerts >>
    /\ UNCHANGED << ctlVars, mainVars, mainHist, flag_log >>
    /\ UNCHANGED << iouVars, stopped >>

\* app2.py:119-139, the boxes are exhausted; ok is the result of cv2.imwrite
App2_EndFrame ==
    /\ program = "app2" /\ pc = "boxes"
    /\ IF CountDeficitViolation(counts.person_count, counts.hardhat_count)
       THEN /\ \E ok \in BOOLEAN :
                 alert_folder' = IF ok THEN alert_folder \cup {frame_idx}
                                 ELSE alert_folder
            /\ alert_count' = alert_count + 1
       ELSE UNCHANGED << alert_folder, alert_count >>
    /\ nboxes' = 0
    /\ unconf' = 0
    /\ pc' = "read"
    \* history: the frame has fewer Hardhat boxes than Person boxes
    /\ flag_log' = IF raw_counts["Person"] > 0
                      /\ raw_counts["Hardhat"] < raw_counts["Person"]
                   THEN Append(flag_log, frame_idx) ELSE flag_log
    /\ UNCHANGED << error, clock, frame_idx, report, mail, person_detected,
                    hardhat_detected, alert_images, counts >>
    /\ UNCHANGED << app3Vars, expected_alerts >>
    /\ UNCHANGED << ctlVars, mainVars, mainHist, raw_counts >>
    /\ UNCHANGED << iouVars, stopped >>

\* app2.py:87-88, 141-143, 168-180: cap.read() returns no frame, the main
\* block zips ALERT_FOLDER and hands the zip and the counts to
\* send_summary_email (43-71)
App2_EndOfVideo ==
    /\ program = "app2" /\ pc = "read"
    /\ report' = << [zip |-> alert_folder, violations |-> alert_count,
                     total_frames |-> frame_idx] >>
    /\ \E smtp_ok \in BOOLEAN : mail' = IF smtp_ok THEN "sent" ELSE "error"
    /\ pc' = "done"
    /\ UNCHANGED << error, clock, frame_idx, alert_count, nboxes >>
    /\ UNCHANGED << app3Vars, expected_alerts >>
    /\ UNCHANGED << ctlVars, mainVars, appVars, mainHist, unconf, raw_counts,
                    flag_log >>
    /\ UNCHANGED << iouVars, stopped >>

(***************************************************************************)
(* app3.py: process_video and the main block.                              *)
(***************************************************************************)
\* the boxes the detector returns for frame idx of a scripted video
ScriptedFrame(w, idx) ==
    LET person == [label |-> "Person", xyxy |-> <<0, 0, 2, 2>>, conf |-> MaxConf]
        hardhat == [label |-> "Hardhat", xyxy |-> <<0, 0, 2, 2>>, conf |-> MaxConf]
    IN  CASE w = "violating" -> << person >>
          [] w = "alternating" -> IF idx % 2 = 1 THEN << person >>
                                  ELSE << person, hardhat >>
          [] OTHER -> << person, hardhat, person >>

\* results of cv2.imwrite
WriteOutcomes(w) == IF w = "free" THEN BOOLEAN ELSE {TRUE}

\* variant of SnapshotDue: the interval the comment and the mail text name
SnapshotDueEighty(idx) == idx % 80 = 0

\* app3.py:134
SnapshotDue(idx) == idx % SnapshotInterval = 0

\* app3.py:103-106
CountLabel3(c, label) ==
    IF label = "Person" THEN [c EXCEPT !.person_count = @ + 1]
    ELSE IF label = "Hardhat" THEN [c EXCEPT !.hardhat_count = @ + 1]
    ELSE c

\* app3.py:71-81; on a source that does not open process_video returns
\* (None, 0, 0) and the main block (168-174) skips the report
App3_Start ==
    /\ program = "app3" /\ pc = "idle"
    /\ \E opened \in BOOLEAN : pc' = IF opened THEN "read" ELSE "returned"
    /\ frame_idx' = 0
    /\ alert_count' = 0
    /\ UNCHANGED << error, clock, nboxes, report, mail >>
    /\ UNCHANGED << app3Vars, expected_alerts >>
    /\ UNCHANGED << ctlVars, mainVars, appVars, mainHist, unconf, raw_counts,
                    flag_log >>
    /\ UNCHANGED << iouVars, stopped >>

\* app3.py:83-92, cap.read() returns a frame
App3_ReadFrame ==
    /\ program = "app3" /\ pc = "read"
    /\ frame_idx < FrameLimit(world)
    /\ frame_idx' = frame_idx + 1
    /\ counts' = ZeroFrameCounts
    /\ violations_to_draw' = <<>>
    /\ nboxes' = 0
    /\ pc' = "boxes"
    /\ raw_counts' = NoBoxes
    /\ unconf' = 0
    /\ UNCHANGED << error, clock, alert_count, report, mail, person_detected,
                    hardhat_detected, alert_images, alert_folder >>
    /\ UNCHANGED << summary_folder, snap_log, expected_alerts >>
    /\ UNCHANGED << ctlVars, mainVars, mainHist, flag_log >>
    /\ UNCHANGED << iouVars, stopped >>

\* app3.py:94-115, one iteration of `for box in result.boxes`
App3_IngestBox ==
    /\ program = "app3" /\ pc = "boxes"
    /\ \E box \in RawDets :
         /\ IF world = "free" THEN nboxes < MaxBoxes
            ELSE /\ nboxes < Len(ScriptedFrame(world, frame_idx))
                 /\ box = ScriptedFrame(world, frame_idx)[nboxes + 1]
         /\ nboxes' = nboxes + 1
         /\ counts' = CountLabel3(counts, box.label)
         /\ violations_to_draw' = IF box.label = "Person"
                                  THEN Append(violations_to_draw, box.xyxy)
                                  ELSE violations_to_draw
         /\ raw_counts' = [raw_counts EXCEPT ![box.label] = @ + 1]
         /\ unconf' = IF box.label \in {"Person", "Hardhat"} THEN unconf
                      ELSE unconf + 1
    /\ UNCHANGED << pc, error, clock, frame_idx, alert_count, report, mail,
                    person_detected, hardhat_detected, alert_images, alert_folder >>
    /\ UNCHANGED << summary_folder, snap_log, expected_alerts >>
    /\ UNCHANGED << ctlVars, mainVars, mainHist, flag_log >>
    /\ UNCHANGED << iouVars, stopped >>

\* app3.py:117-141, the boxes are exhausted; ok and ok_summary are the
\* results of the two cv2.imwrite calls
App3_EndFrame ==
    /\ program = "app3" /\ pc = "boxes"
    /\ world = "free" \/ nboxes = Len(ScriptedFrame(world, frame_idx))
    /\ IF CountDeficitViolation(counts.person_count, counts.hardhat_count)
       THEN /\ \E ok \in WriteOutcomes(world) :
                 alert_folder' = IF ok THEN alert_folder \cup {frame_idx}
                                 ELSE alert_folder
            /\ alert_count' = alert_count + 1
            /\ IF SnapshotDue(frame_idx)
               THEN /\ \E ok_summary \in WriteOutcomes(world) :
                         summary_folder' = IF ok_summary
                                           THEN summary_folder \cup {frame_idx}
                                           ELSE summary_folder
                    /\ snap_log' = Append(snap_log,
                                          [frame |-> frame_idx,
                                           no_hardhat |-> violations_to_draw])
               ELSE UNCHANGED << summary_folder, snap_log >>
       ELSE UNCHANGED << alert_folder, alert_count, summary_folder, snap_log >>
    /\ nboxes' = 0
    /\ unconf' = 0
    /\ pc' = "read"
    \* history: the frame has fewer Hardhat boxes than Person boxes
    /\ flag_log' = IF raw_counts["Person"] > 0
                      /\ raw_counts["Hardhat"] < raw_counts["Person"]
                   THEN Append(flag_log, frame_idx) ELSE flag_log
    /\ UNCHANGED << error, clock, frame_idx, report, mail, person_detected,
                    hardhat_detected, alert_images, counts >>
    /\ UNCHANGED << violations_to_draw, expected_alerts >>
    /\ UNCHANGED << ctlVars, mainVars, mainHist, raw_counts >>
    /\ UNCHANGED << iouVars, stopped >>

\* app3.py:84-86, 143-145, 168-174: cap.read() returns no frame, the main
\* block hands SUMMARY_FOLDER and the counts to send_summary_email (35-69),
\* which attaches every .jpg of the folder
App3_EndOfVideo ==
    /\ program = "app3" /\ pc = "read"
    /\ report' = << [folder |-> summary_folder, violations |-> alert_count,
                     total_frames |-> frame_idx] >>
    /\ \E smtp_ok \in BOOLEAN : mail' = IF smtp_ok THEN "sent" ELSE "error"
    /\ pc' = "done"
    /\ UNCHANGED << error, clock, frame_idx, alert_count, nboxes >>
    /\ UNCHANGED << app3Vars, expected_alerts >>
    /\ UNCHANGED << ctlVars, mainVars, appVars, mainHist, unconf, raw_counts,
                    flag_log >>
    /\ UNCHANGED << iouVars, stopped >>

(***************************************************************************)
(* app_main.py: iou, called on its own with any two boxes.                 *)
(***************************************************************************)
\* four integer coordinates x1, y1, x2, y2 in any order
CallBoxes == { <<x1, y1, x2, y2>> : x1 \in 0..MaxCoord, y1 \in 0..MaxCoord,
                                   x2 \in 0..MaxCoord, y2 \in 0..MaxCoord }

InitIou ==
    /\ Launch
    /\ program = "app_main" /\ world = "free"
    /\ ~is_live /\ thresholds = DefaultThresholds /\ violator_images = {}
    /\ argA \in CallBoxes /\ argB \in CallBoxes
    /\ overlap = <<>>

\* app_main.py:72-82; a division by zero at line 82 raises
Iou_Call ==
    /\ pc = "idle" /\ overlap = <<>> /\ error = "none"
    /\ LET q == iou(argA, argB)
       IN  IF q[2] = 0
           THEN error' = "ZeroDivisionError" /\ UNCHANGED overlap
           ELSE overlap' = << q >> /\ UNCHANGED error
    /\ UNCHANGED << pc, clock, frame_idx, alert_count, nboxes, report, mail >>
    /\ UNCHANGED << argA, argB, stopped, app3Vars, expected_alerts >>
    /\ UNCHANGED << ctlVars, mainVars, appVars, mainHist, unconf, raw_counts,
                    flag_log >>

NextIou ==
    \/ Iou_Call

SpecIou == InitIou /\ [][NextIou]_vars

Next ==
    \/ Main_Start
    \/ Main_ReadFrame
    \/ Main_IngestBox
    \/ Main_BoxesDone(FALSE)
    \/ Main_EvalPerson(FALSE)
    \/ Main_EndFrame
    \/ Main_Stop(FALSE)
    \/ Main_EndOfVideo
    \/ App_Start
    \/ App_ReadFrame
    \/ App_IngestBox
    \/ App_EndFrame
    \/ App_EndOfVideo
    \/ App2_Start
    \/ App2_ReadFrame
    \/ App2_IngestBox
    \/ App2_EndFrame
    \/ App2_EndOfVideo
    \/ App3_Start
    \/ App3_ReadFrame
    \/ App3_IngestBox
    \/ App3_EndFrame
    \/ App3_EndOfVideo

Spec == Init /\ [][Next]_vars

InitTotals == Init /\ program = "app_main" /\ world = "free"

NextTotals ==
    \/ Main_Start
    \/ Main_ReadFrame
    \/ Main_IngestBox
    \/ Main_BoxesDone(TRUE)
    \/ Main_EvalPerson(FALSE)
    \/ Main_EndFrame
    \/ Main_Stop(FALSE)
    \/ Main_EndOfVideo

SpecTotals == InitTotals /\ [][NextTotals]_vars

InitThrottle ==
    /\ Init
    /\ program = "app_main" /\ world = "free"
    /\ ~is_live /\ thresholds = DefaultThresholds

NextThrottle ==
    \/ Main_Start
    \/ Main_ReadFrame
    \/ Main_IngestBox
    \/ Main_BoxesDone(FALSE)
    \/ Main_EvalPerson(TRUE)
    \/ Main_EndFrame
    \/ Main_EndOfVideo

SpecThrottle == InitThrottle /\ [][NextThrottle]_vars

InitLive ==
    /\ Init
    /\ program = "app_main" /\ world = "free"
    /\ is_live /\ thresholds = DefaultThresholds

NextLive ==
    \/ Main_Start
    \/ Main_ReadFrame
    \/ Main_IngestBox
    \/ Main_BoxesDone(FALSE)
    \/ Main_EvalPerson(FALSE)
    \/ Main_EndFrame
    \/ Main_Stop(TRUE)
    \/ Main_EndOfVideo

SpecLive == InitLive /\ [][NextLive]_vars

(***************************************************************************)
(* Properties.                                                             *)
(***************************************************************************)
CeilDiv(a, b) == (a + b - 1) \div b

\* boxes held by a label -> boxes mapping
Retained(d) ==
    Len(d["Person"]) + Len(d["Hardhat"]) + Len(d["Face Mask"]) + Len(d["Safety Vest"])

\* the PPE totals a summary reports, by class
Reported(s) ==
    [k \in {"Hardhat", "Face Mask", "Safety Vest"} |->
       CASE k = "Hardhat" -> s.hardhats
         [] k = "Face Mask" -> s.masks
         [] OTHER -> s.vests]

\* C1: whenever detect_and_process meets an unequipped person, a crop is
\* written if and only if no crop has been written yet in the session or the
\* last one is at least MinInterval seconds old; so the first unequipped
\* person of a session is captured however early it appears.
C1_CaptureIffDue ==
    [][ alert_count' = alert_count + 1 =>
          ( (captures' # captures) <=>
              ( \/ captures = <<>>
                \/ (clock' - last_capture_time) * TickSecs >= MinInterval ) )
      ]_vars

C3_TotalsAreSums ==
    pc = "done" =>
       /\ \A k \in ConfigLabels : Totals(detections)[k] = cum[k]
       /\ summary_msg[1].persons = cum["Person"]

\* C4: the violation counter grows at most once per frame, exactly when the
\* frame is flagged: it never exceeds the frames processed and the summary's
\* 'Violation Frames' is the number of flagged frames.
C4_OncePerFrame ==
    program = "app_main" =>
       /\ alert_count <= frame_idx
       /\ alert_count = Len(flag_log)
       /\ pc = "done" => summary_msg[1].violation_frames = Len(flag_log)

\* C5: in the session summary every PPE total is the smaller of the class's
\* counted total and the person total, hence at most the person total.
C5_ClampedTotals ==
    program = "app_main" /\ pc = "done" =>
       LET s == summary_msg[1]
           raw == Totals(detections)
       IN  /\ s.persons = raw["Person"]
           /\ \A k \in DOMAIN Reported(s) :
                /\ Reported(s)[k] = IF raw[k] <= raw["Person"] THEN raw[k]
                                    ELSE raw["Person"]
                /\ Reported(s)[k] <= s.persons

\* a summary of a session whose hardhat total exceeds its person total
C5_MoreHardhats ==
    /\ program = "app_main" /\ pc = "done"
    /\ Len(detections["Hardhat"]) > Len(detections["Person"])

\* C6: the summary has a deficit finding for a PPE class iff the person total
\* is strictly greater than the class's clamped total, and it has the
\* 'Additional PPE Violations' section iff some class is in deficit.
C6_DeficitFindings ==
    program = "app_main" /\ pc = "done" =>
       LET s == summary_msg[1]
           found(k) == \E i \in 1..Len(s.details) : s.details[i].item = k
       IN  /\ \A k \in DOMAIN Reported(s) : found(k) <=> s.persons > Reported(s)[k]
           /\ \A i \in 1..Len(s.details) :
                /\ s.details[i].persons = s.persons
                /\ s.details[i].only = Reported(s)[s.details[i].item]
           /\ s.additional <=> \E k \in DOMAIN Reported(s) : s.persons > Reported(s)[k]

\* a summary with the section and with a class that is not in deficit
C6_SomeDeficits ==
    /\ program = "app_main" /\ pc = "done"
    /\ summary_msg[1].additional
    /\ Len(summary_msg[1].details) < Len(PPEItems)

\* C7: a raw detection of a configured label is in the frame's detection set
\* if its confidence is at least the label's threshold and is not if its
\* confidence is below it.
C7_ThresholdFilter ==
    program = "app_main" => detections = visible

\* a frame of which one detection was kept and one fell below its threshold
C7_KeptAndDropped ==
    /\ program = "app_main" /\ pc = "boxes"
    /\ unconf = 0
    /\ 0 < Retained(visible) /\ Retained(visible) < nboxes

\* C8 as stated: every detection of a label without a threshold is kept in the
\* frame's detection set, whatever its confidence.
C8_PassedThrough ==
    program = "app_main" /\ pc = "boxes" =>
       Retained(detections) = Retained(visible) + unconf

\* C8, amended: a detection of a label without a threshold is dropped at
\* ingestion whatever its confidence; it never enters the frame's detection
\* set and raises nothing.
C8_UnconfiguredDropped ==
    program = "app_main" =>
       /\ DOMAIN detections = ConfigLabels
       /\ error # "KeyError"
       /\ pc = "boxes" => Retained(detections) + unconf <= nboxes

\* a frame with a detection of a label that has no threshold
C8_UnconfiguredSeen ==
    program = "app_main" /\ pc = "boxes" /\ unconf > 0

\* C9: the step that takes a detection of a label the script does not know
\* ends neither the frame nor the session and changes no count and no verdict.
C9_UnknownLabelInert ==
    [][ unconf' > unconf =>
          /\ pc' = pc
          /\ error' = error
          /\ detections' = detections
          /\ counts' = counts
          /\ alert_count' = alert_count
          /\ flag_log' = flag_log
          /\ alert_folder' = alert_folder
      ]_vars

\* app2.py flags a frame in which it met a label it does not know
C9_FlaggedWithUnknown ==
    /\ program = "app2" /\ pc = "read"
    /\ raw_counts["Face Mask"] > 0
    /\ flag_log # <<>> /\ flag_log[Len(flag_log)] = frame_idx

\* C10: app.py records the alert of a frame iff the frame has a Person
\* detection and no Hardhat detection, and the alerts handed to the report are
\* the flagged frames in frame order.
C10_PresencePolicy ==
    program = "app" =>
       /\ alert_images = flag_log
       /\ \A i, j \in 1..Len(alert_images) : i < j => alert_images[i] < alert_images[j]
       /\ report # <<>> => report[1].image_paths = flag_log

\* a finished run of app.py with a flagged frame and a frame that is not
C10_FlaggedAndNot ==
    /\ program = "app" /\ report # <<>>
    /\ 0 < Len(alert_images) /\ Len(alert_images) < frame_idx
\* C11: app2.py and app3.py flag a frame iff it has a Person box and fewer
\* Hardhat boxes than Person boxes, and the violation count they return is
\* the number of frames so flagged.
C11_CountDeficitPolicy ==
    program \in {"app2", "app3"} =>
       /\ alert_count = Len(flag_log)
       /\ \A i, j \in 1..Len(flag_log) : i < j => flag_log[i] < flag_log[j]
       /\ report # <<>> => report[1].violations = Len(flag_log)

\* a frame of two persons and one hardhat has been flagged
C11_OneHardhatForTwo ==
    /\ program \in {"app2", "app3"} /\ pc = "read" /\ alert_count >= 1
    /\ raw_counts["Person"] = 2 /\ raw_counts["Hardhat"] = 1
\* C12: when the video source does not open, the script leaves the frame loop
\* unentered: it returns a start failure without raising, no frame is
\* counted, no file is written or deleted and nothing goes to the notifier.
C12_StartFailure ==
    [][ pc = "idle" /\ pc' # "read" =>
          /\ pc' = "returned"
          /\ error' = "none"
          /\ frame_idx' = 0 /\ alert_count' = 0
          /\ report' = <<>> /\ mail' = "none"
          /\ violator_images' = violator_images
          /\ alert_folder' = alert_folder
          /\ summary_folder' = summary_folder
      ]_vars
\* positions of the frame loop
Running == {"read", "boxes", "persons"}

\* C13: a session of detect_and_process whose source opened goes from Idle
\* through Running and Finalizing to Done and nowhere else: it leaves the
\* frame loop only for the end of the session, where the summary is produced
\* and handed to the notifier once, and no step follows Done.
C13_SessionPhases ==
    [][ program = "app_main" =>
          /\ pc = "idle" => pc' \in {"read", "returned"}
          /\ pc \in Running => pc' \in Running \cup {"done"}
          /\ pc' = "done" =>
                /\ pc \in {"read", "persons"}
                /\ summary_msg = <<>> /\ Len(summary_msg') = 1
                /\ report = <<>> /\ Len(report') = 1
                /\ mail = "none" /\ mail' # "none"
                /\ frame_idx' = frame_idx
          /\ pc # "done"
      ]_vars
\* C14: a failed cv2.imwrite or a failed mail delivery never ends a session
\* early: when the frame source is exhausted the script still reaches its
\* end without raising, with the frames it counted and its report handed to
\* the notifier, whose failure is only reported.
C14_FailuresDoNotAbort ==
    [][ pc = "read" /\ pc' \notin {"read", "boxes"} =>
          /\ pc' = "done"
          /\ error' = "none"
          /\ Len(report') = 1
          /\ mail' \in {"sent", "error"}
          /\ frame_idx' = frame_idx /\ alert_count' = alert_count
      ]_vars
\* the summary of a session as a function of its recorded detections alone:
\* last is the above-threshold detections of the last frame, alerts the
\* number of unequipped persons over all frames
ReplaySummary(last, alerts) ==
    LET p == Len(last["Person"])
        cap(k) == IF Len(last[k]) < p THEN Len(last[k]) ELSE p
        short == SelectSeq(PPEItems, LAMBDA k : p > cap(k))
    IN  [ persons |-> p,
          hardhats |-> cap("Hardhat"),
          masks |-> cap("Face Mask"),
          vests |-> cap("Safety Vest"),
          violation_frames |-> alerts,
          additional |-> short # <<>>,
          details |-> [i \in 1..Len(short) |->
                         [item |-> short[i], persons |-> p, only |-> cap(short[i])]] ]

\* C15: the summary of a session of detect_and_process is determined by the
\* recorded per-frame detections and the thresholds: two runs on the same
\* record give the same frames processed, violation count, class totals and
\* deficit findings, whatever the clock readings and whatever files an
\* earlier session left.
C15_SummaryFromDetections ==
    program = "app_main" /\ pc = "done" =>
       /\ summary_msg[1] = ReplaySummary(visible, expected_alerts)
       /\ report[1].violations = expected_alerts
       /\ report[1].total_frames = frame_idx

\* a session that counted two violations and, by its timing, wrote one crop
C15_TimingShowed ==
    /\ program = "app_main" /\ pc = "done"
    /\ alert_count = 2 /\ Cardinality(violator_images) = 1
\* the frames of which app3.py wrote a summary snapshot, in order
SnapshotFrames == [i \in 1..Len(snap_log) |-> snap_log[i].frame]

C17_EquippedIffOverlap ==
    [][ /\ program = "app_main" /\ pc = "persons"
        /\ pidx' = pidx + 1 \/ pc' = "crashed"
        =>
        LET person == visible["Person"][pidx + 1]
            hardhats == visible["Hardhat"]
            covered == \E j \in 1..Len(hardhats) :
                          LET q == iou(person, hardhats[j])
                          IN  q[1] * OverlapDen > OverlapNum * q[2]
        IN  /\ (alert_count' = alert_count /\ pc' = pc) <=> covered
            /\ hardhats = <<>> => ~(alert_count' = alert_count /\ pc' = pc)
      ]_vars

\* two persons were judged equipped by the one Hardhat box of the frame
C17_OneHardhatTwoPersons ==
    /\ program = "app_main" /\ pc = "persons"
    /\ Len(detections["Person"]) = 2 /\ Len(detections["Hardhat"]) = 1
    /\ pidx = 2 /\ alert_count = 0
\* C18: in the evaluation of one frame at most one crop is written, however
\* many unequipped persons the frame holds: no two entries of the log of
\* crops are of the same frame.
C18_OneCropPerFrame ==
    \A i, j \in 1..Len(captures) : i < j => captures[i].frame # captures[j].frame
C20_ViolatorsMarked ==
    /\ program = "app_main" /\ pc \in {"read", "done"} =>
          alert_count = expected_alerts
    /\ program \in {"app", "app2", "app3"} =>
          \A i \in 1..Len(snap_log) : snap_log[i].no_hardhat = <<>>
\* C21: in a live session of detect_and_process the stop signal is looked at
\* once per frame, at the end of the frame's person loop and nowhere else,
\* when alert_count already holds the frame's unequipped persons; a stop goes
\* to the end of the session: the summary is built from the counters of the
\* frames read so far and handed to send_summary_email, and a frame that ends
\* without a stop goes on to the next read with every counter kept.
C21_StopFinalizes ==
    [][ program = "app_main" =>
          /\ (pc = "persons" /\ pc' = "done") =>
                /\ is_live /\ stopped'
                /\ pidx = Len(detections["Person"])
                /\ alert_count = expected_alerts
                /\ alert_count' = alert_count /\ frame_idx' = frame_idx
                /\ summary_msg' = << ReplaySummary(visible, expected_alerts) >>
                /\ report' = << [folder |-> violator_images,
                                 violations |-> expected_alerts,
                                 total_frames |-> frame_idx] >>
                /\ mail' \in {"sent", "error"} /\ error' = "none"
          /\ (pc = "persons" /\ pc' = "read") =>
                /\ pidx = Len(detections["Person"])
                /\ UNCHANGED << frame_idx, alert_count, detections, report,
                                summary_msg, mail, stopped >>
          /\ (pc # "persons" \/ pidx < Len(detections["Person"])) =>
                stopped' = stopped
          /\ stopped' => pc' = "done" /\ Len(report') = 1
      ]_vars

\* the Esc key ended a live session after its second frame, with violations
\* counted
C21_StoppedAfterAlerts ==
    /\ program = "app_main" /\ is_live /\ stopped /\ pc = "done"
    /\ frame_idx = 2 /\ alert_count >= 1
    /\ report[1].violations = alert_count
\* the files that go out with the final report of a finished session, by the
\* frame index of their names
Delivered ==
    CASE program = "app_main" -> report[1].folder
      [] program = "app" ->
           { report[1].image_paths[i] : i \in 1..Len(report[1].image_paths) }
      [] program = "app2" ->
           IF report[1].violations > 0 THEN report[1].zip ELSE {}
      [] OTHER -> report[1].folder

\* the frames of which the running session may have written such a file
CapturedNow ==
    IF program = "app3" THEN { snap_log[i].frame : i \in 1..Len(snap_log) }
    ELSE { flag_log[i] : i \in 1..Len(flag_log) }

\* C22: a session sees nothing of an earlier one: before its first frame the
\* counters are zero and, in detect_and_process, the throttle's timestamp is
\* the clock reading of the start; the files delivered with its final report
\* (attached crops or alert images, the zipped alert folder, the summary
\* snapshots) were all written during the session.
C22_SessionsIsolated ==
    /\ pc = "read" /\ frame_idx = 0 =>
          /\ alert_count = 0
          /\ program = "app_main" => last_capture_time = clock
    /\ pc = "done" => Delivered \subseteq CapturedNow
\* C23: iou is symmetric: for any two boxes with integer coordinates of the
\* grid, iou(A, B) returns what iou(B, A) returns.
C23_IouSymmetric ==
    overlap # <<>> => overlap[1] = iou(argB, argA)

\* iou was called on two different boxes that overlap in part
C23_PartialOverlap ==
    /\ overlap # <<>> /\ argA # argB
    /\ 0 < overlap[1][1] /\ overlap[1][1] < overlap[1][2]

\* box b has x1 < x2 and y1 < y2
WellFormed(b) == b[1] < b[3] /\ b[2] < b[4]

\* boxes a and b have no point of positive area in common
Disjoint(a, b) ==
    a[3] <= b[1] \/ b[3] <= a[1] \/ a[4] <= b[2] \/ b[4] <= a[2]

\* C24 as stated: iou is total and bounded over all pairs of boxes, also
\* degenerate and malformed ones: it returns a value in [0, 1] and never
\* divides by zero; the value is 0 when the boxes are disjoint or one of them
\* is degenerate or malformed, and 1 for two identical boxes.
C24_IouTotalBounded ==
    /\ error = "none"
    /\ overlap # <<>> =>
          LET q == overlap[1]
          IN  /\ q[2] > 0 /\ 0 <= q[1] /\ q[1] <= q[2]
              /\ (Disjoint(argA, argB) \/ ~WellFormed(argA) \/ ~WellFormed(argB))
                    => q[1] = 0
              /\ argA = argB => q[1] = q[2]

\* C24, amended: iou is total and bounded over all pairs of boxes, also
\* degenerate and malformed ones: it returns a value in [0, 1] and never
\* divides by zero; the value is 0 when the boxes are disjoint or one of them
\* is degenerate or malformed, and 1 for two identical boxes of positive
\* area (x1 < x2 and y1 < y2).
C24_IouTotalBoundedProper ==
    /\ error = "none"
    /\ overlap # <<>> =>
          LET q == overlap[1]
          IN  /\ q[2] > 0 /\ 0 <= q[1] /\ q[1] <= q[2]
              /\ (Disjoint(argA, argB) \/ ~WellFormed(argA) \/ ~WellFormed(argB))
                    => q[1] = 0
              /\ (argA = argB /\ WellFormed(argA)) => q[1] = q[2]

\* iou was called on a degenerate box and itself, and returned
C24_DegenerateTwice ==
    /\ overlap # <<>> /\ error = "none"
    /\ argA = argB /\ argA[1] = argA[3]
=============================================================================
